---- MODULE Spec2Model ----
(***************************************************************************)
(* Model of the token-list store of src/references/rainbow-token-list:     *)
(* the bundled baseline document, the derived lookup tables, the startup   *)
(* cache load of the constructor and the de-duplicated update() job with   *)
(* its conditional fetch and write-through to the cache files.             *)
(***************************************************************************)
EXTENDS Integers, Sequences, FiniteSets

(***************************************************************************)
(* Bounds of the model.                                                    *)
(***************************************************************************)
\* greatest timestamp a document offered by the cache or the remote carries
MaxTs == 3
\* number of update() calls a behaviour makes (each may start an update job)
MaxCalls == 2
\* longest token list of the documents the lookup tables are built from
MaxTokens == 2

(***************************************************************************)
(* Strings are sequences of characters, so that toLowerCase is computed.   *)
(***************************************************************************)
UpperChars == <<"A", "B", "C", "D", "E", "F", "G", "H", "I", "J", "K", "L", "M",
                "N", "O", "P", "Q", "R", "S", "T", "U", "V", "W", "X", "Y", "Z">>

LowerChars == <<"a", "b", "c", "d", "e", "f", "g", "h", "i", "j", "k", "l", "m",
                "n", "o", "p", "q", "r", "s", "t", "u", "v", "w", "x", "y", "z">>

LowerChar(c) ==
    IF \E i \in DOMAIN UpperChars : UpperChars[i] = c
    THEN LowerChars[CHOOSE i \in DOMAIN UpperChars : UpperChars[i] = c]
    ELSE c

\* String.prototype.toLowerCase
toLowerCase(s) == [i \in DOMAIN s |-> LowerChar(s[i])]

(***************************************************************************)
(* JavaScript values.                                                      *)
(***************************************************************************)
\* null / undefined where an object is expected
Null == [null |-> TRUE]

\* null, undefined or '' where a string is expected (all falsy)
NoEtag == <<>>

\* the time value of an Invalid Date
NaN == -1

\* a conversion that takes a missing timestamp for the present moment, which
\* is after every timestamp
NewDate_Now(obj) == IF "timestamp" \in DOMAIN obj THEN obj.timestamp ELSE MaxTs + 1

\* obj?.timestamp turned into a Date: new Date(undefined) is an Invalid Date
NewDate(obj) == IF "timestamp" \in DOMAIN obj THEN obj.timestamp ELSE NaN

\* a > b on two Dates: both are converted to numbers, NaN compares false
DateGT(a, b) == a # NaN /\ b # NaN /\ a > b

\* {...base, ...ext}: the fields of ext win
Spread(base, ext) ==
    [k \in DOMAIN base \cup DOMAIN ext |-> IF k \in DOMAIN ext THEN ext[k] ELSE base[k]]

(***************************************************************************)
(* Tokens and documents.                                                   *)
(***************************************************************************)
ethWithAddress ==
    [address |-> <<"e", "t", "h">>,
     decimals |-> 18,
     isRainbowCurated |-> TRUE,
     isVerified |-> TRUE,
     name |-> <<"E", "t", "h", "e", "r", "e", "u", "m">>,
     symbol |-> <<"E", "T", "H">>,
     uniqueId |-> <<"e", "t", "h">>]

\* raw tokens the documents of the model are made of
TokenPool ==
    << [address |-> <<"0", "x", "A", "b">>, decimals |-> 18,
        name |-> <<"D", "a", "i">>, symbol |-> <<"D", "A", "I">>,
        extensions |-> [isRainbowCurated |-> TRUE, isVerified |-> TRUE]],
       [address |-> <<"0", "x", "c", "D">>, decimals |-> 6,
        name |-> <<"S", "c", "a", "m">>, symbol |-> <<"d", "a", "i">>],
       [address |-> <<"0", "x", "a", "B">>, decimals |-> 8,
        name |-> <<"D", "a", "i", "2">>, symbol |-> <<"D", "2">>,
        extensions |-> [isVerified |-> TRUE]] >>

\* timestamp of the bundled rainbow-token-list.json
BundledTs == 1

\* the document of timestamp ts: its token list varies with ts
Doc(ts) ==
    [timestamp |-> ts, tokens |-> SubSeq(TokenPool, 1, ts % (Len(TokenPool) + 1))]

\* a JSON object with a tokens list and no timestamp
UndatedDoc == [tokens |-> SubSeq(TokenPool, 1, 1)]

\* a JSON object with a timestamp newer than the bundled one and no tokens list
TokenlessDoc == [timestamp |-> BundledTs + 1]

\* the documents the cache file or the remote may hold
DocPool == {Doc(ts) : ts \in 1..MaxTs} \cup {UndatedDoc}

RAINBOW_TOKEN_LIST_DATA == Doc(BundledTs)

(***************************************************************************)
(* generateDerivedData                                                     *)
(***************************************************************************)
\* a keyBy in which the first item of a key stays and later ones are dropped
keyBy_FirstWins(list, keys) ==
    [k \in {keys[i] : i \in DOMAIN list} |->
        list[CHOOSE i \in DOMAIN list :
                /\ keys[i] = k
                /\ \A j \in DOMAIN list : keys[j] = k => i <= j]]

\* lodash keyBy: an object with one property per key, keys[i] being the key of
\* list[i]; a later item replaces an earlier one that has the same key
keyBy(list, keys) ==
    [k \in {keys[i] : i \in DOMAIN list} |->
        list[CHOOSE i \in DOMAIN list :
                /\ keys[i] = k
                /\ \A j \in DOMAIN list : keys[j] = k => j <= i]]

\* one entry of tokenListData.tokens.map(...)
NormalizeToken(token) ==
    LET address == toLowerCase(token.address)
        base == [address |-> address,
                 decimals |-> token.decimals,
                 name |-> token.name,
                 symbol |-> token.symbol,
                 uniqueId |-> address]
    IN  IF "extensions" \in DOMAIN token THEN Spread(base, token.extensions) ELSE base

\* a filter that keeps every token that carries the field, whatever its value
isRainbowCurated_Present(t) == "isRainbowCurated" \in DOMAIN t

isRainbowCurated(t) == "isRainbowCurated" \in DOMAIN t /\ t.isRainbowCurated = TRUE

AddressOf(t) == t.address

\* a flatMap that hands on the names and symbols already lowercased
RECURSIVE flatMapNameSymbol_Lowered(_)
flatMapNameSymbol_Lowered(list) ==
    IF list = <<>> THEN <<>>
    ELSE <<toLowerCase(Head(list).name), toLowerCase(Head(list).symbol)>>
             \o flatMapNameSymbol_Lowered(Tail(list))

RECURSIVE flatMapNameSymbol(_)
flatMapNameSymbol(list) ==
    IF list = <<>> THEN <<>>
    ELSE <<Head(list).name, Head(list).symbol>> \o flatMapNameSymbol(Tail(list))

\* a builder that puts ethWithAddress after the tokens of the document
generateDerivedData_EthLast(tokenListData) ==
    LET tokenList == [i \in DOMAIN tokenListData.tokens |->
                         NormalizeToken(tokenListData.tokens[i])]
        tokenListWithEth == tokenList \o <<ethWithAddress>>
        curatedRainbowTokenList == SelectSeq(tokenListWithEth, isRainbowCurated)
        safeList == flatMapNameSymbol(curatedRainbowTokenList)
    IN  [CURATED_TOKENS |->
             keyBy(curatedRainbowTokenList,
                   [i \in DOMAIN curatedRainbowTokenList |->
                       AddressOf(curatedRainbowTokenList[i])]),
         RAINBOW_TOKEN_LIST |->
             keyBy(tokenListWithEth,
                   [i \in DOMAIN tokenListWithEth |-> AddressOf(tokenListWithEth[i])]),
         TOKEN_SAFE_LIST |->
             keyBy(safeList, [i \in DOMAIN safeList |-> toLowerCase(safeList[i])])]

\* a builder that takes the safe list from all the tokens, curated or not
generateDerivedData_SafeFromAll(tokenListData) ==
    LET tokenList == [i \in DOMAIN tokenListData.tokens |->
                         NormalizeToken(tokenListData.tokens[i])]
        tokenListWithEth == <<ethWithAddress>> \o tokenList
        curatedRainbowTokenList == SelectSeq(tokenListWithEth, isRainbowCurated)
        safeList == flatMapNameSymbol(tokenListWithEth)
    IN  [CURATED_TOKENS |->
             keyBy(curatedRainbowTokenList,
                   [i \in DOMAIN curatedRainbowTokenList |->
                       AddressOf(curatedRainbowTokenList[i])]),
         RAINBOW_TOKEN_LIST |->
             keyBy(tokenListWithEth,
                   [i \in DOMAIN tokenListWithEth |-> AddressOf(tokenListWithEth[i])]),
         TOKEN_SAFE_LIST |->
             keyBy(safeList, [i \in DOMAIN safeList |-> toLowerCase(safeList[i])])]

generateDerivedData(tokenListData) ==
    LET tokenList == [i \in DOMAIN tokenListData.tokens |->
                         NormalizeToken(tokenListData.tokens[i])]
        tokenListWithEth == <<ethWithAddress>> \o tokenList
        curatedRainbowTokenList == SelectSeq(tokenListWithEth, isRainbowCurated)
        safeList == flatMapNameSymbol(curatedRainbowTokenList)
    IN  [CURATED_TOKENS |->
             keyBy(curatedRainbowTokenList,
                   [i \in DOMAIN curatedRainbowTokenList |->
                       AddressOf(curatedRainbowTokenList[i])]),
         RAINBOW_TOKEN_LIST |->
             keyBy(tokenListWithEth,
                   [i \in DOMAIN tokenListWithEth |-> AddressOf(tokenListWithEth[i])]),
         TOKEN_SAFE_LIST |->
             keyBy(safeList, [i \in DOMAIN safeList |-> toLowerCase(safeList[i])])]

\* generateDerivedData(RAINBOW_TOKEN_LIST_DATA): what the field initialiser and
\* the setter assign to #derivedData
BundledDerivedData == generateDerivedData(RAINBOW_TOKEN_LIST_DATA)

(***************************************************************************)
(* The cache directory: RNFS files, read and written as JSON text.         *)
(***************************************************************************)
RB_TOKEN_LIST_CACHE == "rb-token-list.json"

RB_TOKEN_LIST_ETAG == "rb-token-list-etag.json"

FileNames == {RB_TOKEN_LIST_CACHE, RB_TOKEN_LIST_ETAG}

\* a file that does not exist: RNFS.readFile rejects
Missing == [kind |-> "missing"]

\* a file whose text is not JSON: JSON.parse throws
Corrupt == [kind |-> "corrupt"]

JsonStringify(value) == [kind |-> "json", value |-> value]

\* the validation tokens of the remote: one per dated document
EtagOf(doc) == <<"W", NewDate(doc)>>

VARIABLES
    tokenListDataStorage,   \* #tokenListDataStorage: the accepted document
    derivedData,            \* #derivedData: the three lookup tables
    updateJob,              \* #updateJob: 0 (null) or the id of the pending promise
    rnfs,                   \* content of the two files of the cache directory
    emitted,                \* number of 'update' events emitted so far
    notified,               \* what the listeners of 'update' found accepted, in order
    ctor,                   \* position of the constructor's promise chain
    cachedData,             \* value the constructor's read resolved with
    pc,                     \* position of the running #update()
    currentTokenListData,   \* argument getTokenListUpdate was called with
    ifNoneMatch,            \* If-None-Match header of the request (NoEtag: none)
    resp,                   \* what rainbowFetch resolved with
    work,                   \* file writes of Promise.all(work) still pending
    result,                 \* what getTokenListUpdate settled with
    jobs,                   \* number of #update() runs started: their ids are 1..jobs
    calls,                  \* history: one record per update() call
    fetches,                \* history: rainbowFetch calls issued by each job
    inflight,               \* number of rainbowFetch calls not yet settled
    settled,                \* how the promise of each job settled
    branch,                 \* history: which path of #update each job ended on
    adoptions,              \* history: one record per run of the #tokenListData setter
    base,                   \* history: the store as it would be without the running job
    info,                   \* history: facts about the latest job
    seen,                   \* what the latest call of a read accessor returned
    observed,               \* what the listeners of 'update' found in the store, in order
    reads                   \* history: number of reads of each file of the cache directory

vars == <<tokenListDataStorage, derivedData, updateJob, rnfs, emitted, notified, ctor, cachedData,
          pc, currentTokenListData, ifNoneMatch, resp, work, result, jobs, calls,
          fetches, inflight, settled, branch, adoptions, base, info, seen,
          observed, reads>>

store == <<tokenListDataStorage, derivedData, emitted, notified, observed>>

frame == <<pc, currentTokenListData, ifNoneMatch, resp, work, result>>

history == <<jobs, calls, fetches, settled, branch, info>>

NoJob == 0

NoResp == [status |-> 0, data |-> Null, etag |-> NoEtag]

NoResult == [kind |-> "none", newTokenList |-> Null, status |-> 0]

\* no read accessor has been called yet
NotRead == [name |-> "none", value |-> Null]

\* what the store looks like to a reader, and the files
Snapshot(doc, derived, files, count) ==
    [doc |-> doc, derived |-> derived, rnfs |-> files, emitted |-> count]

\* readRNFSJsonData: the parsed content, null when the read or the parse throws
readRNFSJsonData(filename) ==
    IF rnfs[filename].kind = "json" THEN rnfs[filename].value ELSE Null

\* the files after writeRNFSJsonData(filename, data) has finished: a failed
\* write is logged and leaves the file as it was
\* a write that removes the file when it fails
writeRNFSJsonData_UnlinkOnFail(filename, data, ok) ==
    IF ok THEN [rnfs EXCEPT ![filename] = JsonStringify(data)]
          ELSE [rnfs EXCEPT ![filename] = Missing]

writeRNFSJsonData(filename, data, ok) ==
    IF ok THEN [rnfs EXCEPT ![filename] = JsonStringify(data)] ELSE rnfs

Init ==
    /\ tokenListDataStorage = RAINBOW_TOKEN_LIST_DATA
    /\ derivedData = BundledDerivedData
    /\ updateJob = NoJob
    /\ \E cache \in {Missing, Corrupt}
                       \cup {JsonStringify(d) : d \in DocPool \cup {TokenlessDoc}},
          tag \in {Missing, Corrupt}
                     \cup {JsonStringify([etag |-> EtagOf(Doc(ts))]) : ts \in {1, MaxTs}} :
            rnfs = [f \in FileNames |-> IF f = RB_TOKEN_LIST_CACHE THEN cache ELSE tag]
    /\ emitted = 0
    /\ notified = <<>>
    /\ ctor = "reading"
    /\ cachedData = Null
    /\ pc = "idle"
    /\ currentTokenListData = Null
    /\ ifNoneMatch = NoEtag
    /\ resp = NoResp
    /\ work = {}
    /\ result = NoResult
    /\ jobs = 0
    /\ calls = <<>>
    /\ fetches = [j \in 1..MaxCalls |-> 0]
    /\ inflight = 0
    /\ settled = [j \in 1..MaxCalls |-> "pending"]
    /\ branch = [j \in 1..MaxCalls |-> "none"]
    /\ adoptions = <<>>
    /\ base = Snapshot(tokenListDataStorage, derivedData, rnfs, emitted)
    /\ info = [overlap |-> FALSE, concurrent |-> FALSE, stale |-> FALSE, writesOk |-> TRUE]
    /\ seen = NotRead
    /\ observed = <<>>
    /\ reads = [f \in FileNames |-> 0]

(***************************************************************************)
(* set #tokenListData(val): store the document, rebuild the tables, emit.  *)
(***************************************************************************)
\* a setter that stores the document and tells nobody
SetTokenListData_NoEmit(val) ==
    /\ tokenListDataStorage' = val
    /\ derivedData' = BundledDerivedData
    /\ UNCHANGED <<emitted, notified, observed>>

\* a setter that emits 'update' before it stores anything
SetTokenListData_EmitFirst(val) ==
    /\ emitted' = emitted + 1
    /\ notified' = Append(notified, NewDate(tokenListDataStorage))
    /\ observed' = Append(observed, [doc |-> tokenListDataStorage,
                                      derived |-> derivedData])
    /\ tokenListDataStorage' = val
    /\ derivedData' = BundledDerivedData

SetTokenListData(val) ==
    /\ tokenListDataStorage' = val
    /\ derivedData' = BundledDerivedData
    /\ emitted' = emitted + 1
    /\ notified' = Append(notified, NewDate(tokenListDataStorage'))
    /\ observed' = Append(observed, [doc |-> tokenListDataStorage',
                                      derived |-> derivedData'])

\* the history record of one run of the setter
Adoption(val, via) ==
    [prev |-> NewDate(tokenListDataStorage), next |-> NewDate(val), via |-> via]

(***************************************************************************)
(* constructor: readRNFSJsonData(RB_TOKEN_LIST_CACHE).then(...)            *)
(***************************************************************************)
\* the read of the cache file settles: the promise resolves with the parsed
\* document, or with null
constructorRead ==
    /\ ctor = "reading"
    /\ ctor' = "then"
    /\ cachedData' = readRNFSJsonData(RB_TOKEN_LIST_CACHE)
    /\ UNCHANGED <<store, updateJob, rnfs, frame, history, inflight, adoptions, base>>
    /\ reads' = [reads EXCEPT ![RB_TOKEN_LIST_CACHE] = @ + 1]
    /\ UNCHANGED seen

\* a .then callback that takes both dates from the accepted document
constructorThen_SelfCompare ==
    /\ ctor = "then"
    /\ ctor' = "done"
    /\ IF /\ "timestamp" \in DOMAIN cachedData
          /\ DateGT(NewDate(tokenListDataStorage), NewDate(tokenListDataStorage))
       THEN /\ SetTokenListData(cachedData)
            /\ adoptions' = Append(adoptions, Adoption(cachedData, "cache"))
            /\ base' = [base EXCEPT !.doc = cachedData,
                                    !.derived = derivedData',
                                    !.emitted = @ + 1]
            /\ info' = [info EXCEPT !.concurrent = TRUE]
       ELSE UNCHANGED <<store, adoptions, base, info>>
    /\ UNCHANGED <<updateJob, rnfs, cachedData, frame, jobs, calls, fetches, inflight,
                   settled, branch>>
    /\ UNCHANGED <<seen, reads>>

\* the .then callback: adopt the cached document when it is dated and newer
\* than the document accepted now
constructorThen ==
    /\ ctor = "then"
    /\ ctor' = "done"
    /\ IF /\ "timestamp" \in DOMAIN cachedData
          /\ DateGT(NewDate(cachedData), NewDate(tokenListDataStorage))
       THEN /\ SetTokenListData(cachedData)
            /\ adoptions' = Append(adoptions, Adoption(cachedData, "cache"))
            /\ base' = [base EXCEPT !.doc = cachedData,
                                    !.derived = derivedData',
                                    !.emitted = @ + 1]
            /\ info' = [info EXCEPT !.concurrent = TRUE]
       ELSE UNCHANGED <<store, adoptions, base, info>>
    /\ UNCHANGED <<updateJob, rnfs, cachedData, frame, jobs, calls, fetches, inflight,
                   settled, branch>>
    /\ UNCHANGED <<seen, reads>>

(***************************************************************************)
(* update() and #update()                                                  *)
(***************************************************************************)
\* this.#updateJob = this.#update(): #update runs up to its first await, inside
\* getTokenListUpdate, which was handed the document accepted at this moment
StartUpdate ==
    /\ jobs' = jobs + 1
    /\ updateJob' = jobs + 1
    /\ pc' = "readEtag"
    /\ currentTokenListData' = tokenListDataStorage
    /\ ifNoneMatch' = NoEtag
    /\ resp' = NoResp
    /\ work' = {}
    /\ result' = NoResult
    /\ base' = Snapshot(tokenListDataStorage, derivedData, rnfs, emitted)
    /\ info' = [overlap |-> ctor # "done", concurrent |-> FALSE, stale |-> FALSE,
                writesOk |-> TRUE]

\* update() without the de-duplication: every call runs #update()
update_NoDedup ==
    /\ Len(calls) < MaxCalls
    /\ StartUpdate
    /\ calls' = Append(calls, [job |-> updateJob', refreshing |-> pc # "idle",
                              fromListener |-> FALSE])
    /\ UNCHANGED <<store, rnfs, ctor, cachedData, fetches, inflight, settled, branch,
                   adoptions>>
    /\ UNCHANGED <<seen, reads>>

update ==
    /\ Len(calls) < MaxCalls
    /\ IF updateJob = NoJob
       THEN StartUpdate
       ELSE UNCHANGED <<updateJob, frame, jobs, base, info>>
    /\ calls' = Append(calls, [job |-> updateJob', refreshing |-> pc # "idle",
                              fromListener |-> FALSE])
    /\ UNCHANGED <<store, rnfs, ctor, cachedData, fetches, inflight, settled, branch,
                   adoptions>>
    /\ UNCHANGED <<seen, reads>>

\* a refresh that never sends the If-None-Match header
etagRead_Unconditional ==
    /\ pc = "readEtag"
    /\ ifNoneMatch' = NoEtag
    /\ fetches' = [fetches EXCEPT ![updateJob] = @ + 1]
    /\ inflight' = inflight + 1
    /\ pc' = "fetch"
    /\ UNCHANGED <<store, updateJob, rnfs, ctor, cachedData, currentTokenListData, resp,
                   work, result, jobs, calls, settled, branch, adoptions, base, info>>
    /\ reads' = [reads EXCEPT ![RB_TOKEN_LIST_ETAG] = @ + 1]
    /\ UNCHANGED seen

\* the read of the etag file settles and rainbowFetch is called, with the
\* If-None-Match header when the file held an etag
etagRead ==
    /\ pc = "readEtag"
    /\ LET etagData == readRNFSJsonData(RB_TOKEN_LIST_ETAG)
           etag == IF "etag" \in DOMAIN etagData THEN etagData.etag ELSE NoEtag
       IN  ifNoneMatch' = etag
    /\ fetches' = [fetches EXCEPT ![updateJob] = @ + 1]
    /\ inflight' = inflight + 1
    /\ pc' = "fetch"
    /\ UNCHANGED <<store, updateJob, rnfs, ctor, cachedData, currentTokenListData, resp,
                   work, result, jobs, calls, settled, branch, adoptions, base, info>>
    /\ reads' = [reads EXCEPT ![RB_TOKEN_LIST_ETAG] = @ + 1]
    /\ UNCHANGED seen

\* the responses rainbowFetch may resolve with
Responses ==
    UNION {{[status |-> 200, data |-> d, etag |-> e] : e \in {NoEtag, EtagOf(d)}} :
              d \in DocPool}
    \cup {[status |-> s, data |-> Null, etag |-> NoEtag] : s \in {304, 500}}

\* a JSON document offered with a timestamp that is not after the accepted one
IsStale(r) ==
    /\ r.status = 200
    /\ "timestamp" \in DOMAIN r.data
    /\ r.data.timestamp <= NewDate(tokenListDataStorage)

\* rainbowFetch resolves: on 200 with a document newer than the one handed in,
\* the writes of the cache files are started; otherwise there is no new list
fetchResolves(r) ==
    /\ pc = "fetch"
    /\ inflight' = inflight - 1
    /\ resp' = r
    /\ info' = [info EXCEPT !.stale = IsStale(r)]
    /\ IF r.status = 200 /\ DateGT(NewDate(r.data), NewDate(currentTokenListData))
       THEN /\ work' = {RB_TOKEN_LIST_CACHE}
                          \cup (IF r.etag # NoEtag THEN {RB_TOKEN_LIST_ETAG} ELSE {})
            /\ pc' = "write"
            /\ UNCHANGED result
       ELSE /\ result' = [kind |-> "value", newTokenList |-> Null, status |-> r.status]
            /\ pc' = "ret"
            /\ UNCHANGED work
    /\ UNCHANGED <<store, updateJob, rnfs, ctor, cachedData, currentTokenListData,
                   ifNoneMatch, jobs, calls, fetches, settled, branch, adoptions, base>>
    /\ UNCHANGED <<seen, reads>>

\* rainbowFetch rejects (transport or parse failure): getTokenListUpdate rejects
fetchRejects ==
    /\ pc = "fetch"
    /\ inflight' = inflight - 1
    /\ result' = [kind |-> "throw", newTokenList |-> Null, status |-> 0]
    /\ pc' = "ret"
    /\ UNCHANGED <<store, updateJob, rnfs, ctor, cachedData, currentTokenListData,
                   ifNoneMatch, resp, work, history, adoptions, base>>
    /\ UNCHANGED <<seen, reads>>

\* one of the writes of Promise.all(work) settles; after the last one
\* getTokenListUpdate returns the fetched document as newTokenList
writeSettles(filename, ok) ==
    /\ pc = "write"
    /\ filename \in work
    /\ rnfs' = writeRNFSJsonData(filename,
                                 IF filename = RB_TOKEN_LIST_CACHE
                                 THEN resp.data ELSE [etag |-> resp.etag],
                                 ok)
    /\ work' = work \ {filename}
    /\ info' = [info EXCEPT !.writesOk = @ /\ ok]
    /\ IF work' = {}
       THEN /\ result' = [kind |-> "value", newTokenList |-> resp.data,
                          status |-> resp.status]
            /\ pc' = "ret"
       ELSE UNCHANGED <<result, pc>>
    /\ UNCHANGED <<store, updateJob, ctor, cachedData, currentTokenListData, ifNoneMatch,
                   resp, jobs, calls, fetches, inflight, settled, branch, adoptions, base>>
    /\ UNCHANGED <<seen, reads>>

\* which of the paths of #update a settled getTokenListUpdate leads to
BranchOf(res) ==
    IF res.kind = "throw" THEN "error"
    ELSE IF res.newTokenList # Null THEN "updated"
    ELSE IF res.status = 304 THEN "notModified"
    ELSE "didNotUpdate"

\* #update whose clearing of #updateJob is skipped when the refresh threw
completeUpdate_NoFinally ==
    /\ pc = "ret"
    /\ IF result.kind = "value" /\ result.newTokenList # Null
       THEN /\ SetTokenListData(result.newTokenList)
            /\ adoptions' = Append(adoptions, Adoption(result.newTokenList, "network"))
       ELSE UNCHANGED <<store, adoptions>>
    /\ branch' = [branch EXCEPT ![updateJob] = BranchOf(result)]
    /\ settled' = [settled EXCEPT ![updateJob] = "undefined"]
    /\ updateJob' = IF result.kind = "throw" THEN updateJob ELSE NoJob
    /\ pc' = "idle"
    /\ UNCHANGED <<rnfs, ctor, cachedData, currentTokenListData, ifNoneMatch, resp, work,
                   result, jobs, calls, fetches, inflight, base, info>>
    /\ UNCHANGED <<seen, reads>>

\* #update whose catch block falls back to the bundled document
completeUpdate_ResetOnError ==
    /\ pc = "ret"
    /\ IF result.kind = "value" /\ result.newTokenList # Null
       THEN /\ SetTokenListData(result.newTokenList)
            /\ adoptions' = Append(adoptions, Adoption(result.newTokenList, "network"))
       ELSE IF result.kind = "throw"
       THEN /\ SetTokenListData(RAINBOW_TOKEN_LIST_DATA)
            /\ adoptions' = Append(adoptions, Adoption(RAINBOW_TOKEN_LIST_DATA, "network"))
       ELSE UNCHANGED <<store, adoptions>>
    /\ branch' = [branch EXCEPT ![updateJob] = BranchOf(result)]
    /\ settled' = [settled EXCEPT ![updateJob] = "undefined"]
    /\ updateJob' = NoJob
    /\ pc' = "idle"
    /\ UNCHANGED <<rnfs, ctor, cachedData, currentTokenListData, ifNoneMatch, resp, work,
                   result, jobs, calls, fetches, inflight, base, info>>
    /\ UNCHANGED <<seen, reads>>

\* #update resumes after its await: log, adopt the new list if there is one,
\* catch a rejection, and in finally clear #updateJob; the promise of the job
\* resolves with undefined
completeUpdate ==
    /\ pc = "ret"
    /\ IF result.kind = "value" /\ result.newTokenList # Null
       THEN /\ SetTokenListData(result.newTokenList)
            /\ adoptions' = Append(adoptions, Adoption(result.newTokenList, "network"))
       ELSE UNCHANGED <<store, adoptions>>
    /\ branch' = [branch EXCEPT ![updateJob] = BranchOf(result)]
    /\ settled' = [settled EXCEPT ![updateJob] = "undefined"]
    /\ updateJob' = NoJob
    /\ pc' = "idle"
    /\ UNCHANGED <<rnfs, ctor, cachedData, currentTokenListData, ifNoneMatch, resp, work,
                   result, jobs, calls, fetches, inflight, base, info>>
    /\ UNCHANGED <<seen, reads>>

(***************************************************************************)
(* Listeners of 'update' that act during the emit of a network adoption.   *)
(* emit runs them synchronously, inside the setter, inside the try block   *)
(* of #update: the finally block has not run yet.                          *)
(***************************************************************************)
\* #updateJob as cleared before the setter runs
JobDuringEmit_Cleared == NoJob

\* #updateJob while the setter called by #update emits: still the running job
JobDuringEmit == updateJob

\* #update resumes with a new list and a listener of 'update' calls update()
\* during the emit: update() finds #updateJob as it is during the emit, hands
\* it back when it is set and runs #update() when it is null; the finally
\* block of the resumed #update then clears #updateJob
completeUpdateReentrant ==
    /\ pc = "ret"
    /\ result.kind = "value" /\ result.newTokenList # Null
    /\ Len(calls) < MaxCalls
    /\ SetTokenListData(result.newTokenList)
    /\ adoptions' = Append(adoptions, Adoption(result.newTokenList, "network"))
    /\ branch' = [branch EXCEPT ![updateJob] = BranchOf(result)]
    /\ settled' = [settled EXCEPT ![updateJob] = "undefined"]
    /\ IF JobDuringEmit = NoJob
       THEN /\ jobs' = jobs + 1
            /\ calls' = Append(calls, [job |-> jobs + 1, refreshing |-> FALSE,
                                          fromListener |-> TRUE])
            /\ currentTokenListData' = tokenListDataStorage'
            /\ ifNoneMatch' = NoEtag
            /\ resp' = NoResp
            /\ work' = {}
            /\ result' = NoResult
            /\ base' = Snapshot(tokenListDataStorage', derivedData', rnfs, emitted')
            /\ info' = [overlap |-> ctor # "done", concurrent |-> FALSE,
                        stale |-> FALSE, writesOk |-> TRUE]
            /\ pc' = "readEtag"
       ELSE /\ calls' = Append(calls, [job |-> JobDuringEmit, refreshing |-> TRUE,
                                          fromListener |-> TRUE])
            /\ pc' = "idle"
            /\ UNCHANGED <<jobs, currentTokenListData, ifNoneMatch, resp, work, result,
                           base, info>>
    /\ updateJob' = NoJob
    /\ UNCHANGED <<rnfs, ctor, cachedData, fetches, inflight>>
    /\ UNCHANGED <<seen, reads>>

\* #update whose promise rejects with what the listener threw
completeUpdateListenerThrows_Rejecting ==
    /\ pc = "ret"
    /\ result.kind = "value" /\ result.newTokenList # Null
    /\ SetTokenListData(result.newTokenList)
    /\ adoptions' = Append(adoptions, Adoption(result.newTokenList, "network"))
    /\ branch' = [branch EXCEPT ![updateJob] = "caught"]
    /\ settled' = [settled EXCEPT ![updateJob] = "rejected"]
    /\ updateJob' = NoJob
    /\ pc' = "idle"
    /\ UNCHANGED <<rnfs, ctor, cachedData, currentTokenListData, ifNoneMatch, resp, work,
                   result, jobs, calls, fetches, inflight, base, info>>
    /\ UNCHANGED <<seen, reads>>

\* #update resumes with a new list and a listener of 'update' throws: the
\* setter has stored the document and the tables before the emit, the throw
\* leaves the setter and is caught by the catch block of #update, which logs
\* it; finally clears #updateJob and the promise resolves with undefined
completeUpdateListenerThrows ==
    /\ pc = "ret"
    /\ result.kind = "value" /\ result.newTokenList # Null
    /\ SetTokenListData(result.newTokenList)
    /\ adoptions' = Append(adoptions, Adoption(result.newTokenList, "network"))
    /\ branch' = [branch EXCEPT ![updateJob] = "caught"]
    /\ settled' = [settled EXCEPT ![updateJob] = "undefined"]
    /\ updateJob' = NoJob
    /\ pc' = "idle"
    /\ UNCHANGED <<rnfs, ctor, cachedData, currentTokenListData, ifNoneMatch, resp, work,
                   result, jobs, calls, fetches, inflight, base, info>>
    /\ UNCHANGED <<seen, reads>>

(***************************************************************************)
(* get CURATED_TOKENS(), get RAINBOW_TOKEN_LIST(), get TOKEN_SAFE_LIST()   *)
(***************************************************************************)
AccessorNames == {"CURATED_TOKENS", "RAINBOW_TOKEN_LIST", "TOKEN_SAFE_LIST"}

\* a getter that starts a refresh when none is running, then returns the table
accessorRead_Refreshing(name) ==
    /\ seen' = [name |-> name, value |-> derivedData[name]]
    /\ IF updateJob = NoJob /\ jobs < MaxCalls
       THEN StartUpdate
       ELSE UNCHANGED <<updateJob, frame, jobs, base, info>>
    /\ UNCHANGED <<store, rnfs, ctor, cachedData, calls, fetches, inflight, settled,
                   branch, adoptions, reads>>

\* a caller reads one of the three accessors: it gets the table #derivedData
\* holds under that name
accessorRead(name) ==
    /\ seen' = [name |-> name, value |-> derivedData[name]]
    /\ UNCHANGED <<store, updateJob, rnfs, ctor, cachedData, frame, history, inflight,
                   adoptions, base, reads>>

Next ==
    \/ constructorRead
    \/ constructorThen
    \/ update
    \/ etagRead
    \/ \E r \in Responses : fetchResolves(r)
    \/ fetchRejects
    \/ \E f \in FileNames, ok \in BOOLEAN : writeSettles(f, ok)
    \/ completeUpdate

Spec == Init /\ [][Next]_vars

\* the collaborators complete every call, by returning or by failing, and the
\* continuation of a settled await is run.  The last conjunct is weak fairness
\* of completeUpdate written out: that step is enabled exactly when pc = "ret".
Fairness ==
    /\ WF_vars(etagRead)
    /\ WF_vars((\E r \in Responses : fetchResolves(r)) \/ fetchRejects)
    /\ WF_vars(\E f \in FileNames, ok \in BOOLEAN : writeSettles(f, ok))
    /\ ([]<>(pc # "ret") \/ []<><<completeUpdate>>_vars)

\* the starts with no cache file or with the newest document in it
InitFew ==
    /\ Init
    /\ rnfs[RB_TOKEN_LIST_CACHE] \in {Missing, JsonStringify(Doc(MaxTs))}

SpecFair == InitFew /\ [][Next]_vars /\ Fairness

(***************************************************************************)
(* generateDerivedData on its own, applied to arbitrary documents.         *)
(***************************************************************************)
\* addresses as documents spell them: two that differ by case only, and one
\* that differs from the address of ethWithAddress by case only
RawAddresses == {<<"0", "x", "A">>, <<"0", "x", "a">>, <<"E", "T", "H">>}

\* name and symbol of a raw token: the first pair lowercases to one string,
\* the symbol of the second lowercases to the symbol of ethWithAddress
RawNames == {[name |-> <<"D", "a", "i">>, symbol |-> <<"D", "A", "I">>],
             [name |-> <<"U", "s", "d">>, symbol |-> <<"e", "t", "h">>]}

\* the extensions object of a raw token
RawExtensions ==
    {[isRainbowCurated |-> TRUE],
     [isRainbowCurated |-> FALSE],
     [isRainbowCurated |-> TRUE, address |-> <<"0", "x", "B">>]}

\* the entries tokenListData.tokens may hold, with and without extensions
RawTokens ==
    {[address |-> a, decimals |-> 18, name |-> n.name, symbol |-> n.symbol] :
        a \in RawAddresses, n \in RawNames}
    \cup {[address |-> a, decimals |-> 18, name |-> n.name, symbol |-> n.symbol,
           extensions |-> e] : a \in RawAddresses, n \in RawNames, e \in RawExtensions}

\* the documents with at most MaxTokens tokens
PureDocs ==
    {[timestamp |-> BundledTs, tokens |-> l] :
        l \in UNION {[1..n -> RawTokens] : n \in 0..MaxTokens}}

\* a document is given and nothing has been built from it
InitPure ==
    /\ tokenListDataStorage \in PureDocs
    /\ derivedData = Null
    /\ pc = "input"
    /\ updateJob = NoJob
    /\ rnfs = [f \in FileNames |-> Missing]
    /\ emitted = 0
    /\ notified = <<>>
    /\ ctor = "done"
    /\ cachedData = Null
    /\ currentTokenListData = Null
    /\ ifNoneMatch = NoEtag
    /\ resp = NoResp
    /\ work = {}
    /\ result = NoResult
    /\ jobs = 0
    /\ calls = <<>>
    /\ fetches = [j \in 1..MaxCalls |-> 0]
    /\ inflight = 0
    /\ settled = [j \in 1..MaxCalls |-> "pending"]
    /\ branch = [j \in 1..MaxCalls |-> "none"]
    /\ adoptions = <<>>
    /\ base = Snapshot(tokenListDataStorage, derivedData, rnfs, emitted)
    /\ info = [overlap |-> FALSE, concurrent |-> FALSE, stale |-> FALSE, writesOk |-> TRUE]
    /\ seen = NotRead
    /\ observed = <<>>
    /\ reads = [f \in FileNames |-> 0]

\* generateDerivedData is applied to the document
build ==
    /\ pc = "input"
    /\ derivedData' = generateDerivedData(tokenListDataStorage)
    /\ pc' = "built"
    /\ UNCHANGED <<tokenListDataStorage, updateJob, rnfs, emitted, notified, ctor,
                   cachedData, currentTokenListData, ifNoneMatch, resp, work, result,
                   history, inflight, adoptions, base, seen, observed, reads>>

NextPure == build

SpecPure == InitPure /\ [][NextPure]_vars

\* the store with callers that read the accessors at any moment
NextAccess ==
    \/ Next
    \/ \E name \in AccessorNames : accessorRead(name)

\* of those starts, the ones with no etag file or with the newest etag in it
InitAccess ==
    /\ InitFew
    /\ rnfs[RB_TOKEN_LIST_ETAG] \in {Missing, JsonStringify([etag |-> EtagOf(Doc(MaxTs))])}

SpecAccess == InitAccess /\ [][NextAccess]_vars

\* the program with listeners of 'update' that call update() or throw
NextListener ==
    \/ Next
    \/ completeUpdateReentrant
    \/ completeUpdateListenerThrows

SpecListener == InitFew /\ [][NextListener]_vars

(***************************************************************************)
(* Properties.                                                             *)
(***************************************************************************)
\* the store and the files as they are now
Current == Snapshot(tokenListDataStorage, derivedData, rnfs, emitted)

\* the jobs whose promise has settled
Finished == {j \in 1..jobs : j # updateJob}

Max(S) == CHOOSE x \in S : \A y \in S : y <= x

\* C1: every adoption, from the cache or from the network, replaces the
\* accepted document by one whose timestamp is strictly greater than that of
\* the document accepted at the moment of the swap.
C1_AdoptionStrictlyNewer ==
    \A i \in DOMAIN adoptions : DateGT(adoptions[i].next, adoptions[i].prev)

\* C2: the lookup tables the accessors return are the ones generateDerivedData
\* builds from the accepted document.
C2_IndicesOfAcceptedDocument ==
    "tokens" \in DOMAIN tokenListDataStorage =>
        derivedData = generateDerivedData(tokenListDataStorage)

\* C3: an update() call made while a job is active starts no job and gets the
\* job of the call before it; at most one fetch is in flight, no job issues
\* more than one fetch, and there are exactly as many jobs as calls made while
\* no job was active.
C3_UpdateDeduplicated ==
    /\ inflight <= 1
    /\ \A j \in 1..MaxCalls : fetches[j] <= 1
    /\ \A i \in DOMAIN calls :
          calls[i].refreshing => i > 1 /\ calls[i].job = calls[i - 1].job
    /\ jobs = Cardinality({i \in DOMAIN calls : ~calls[i].refreshing})

\* C3 witness: two update() calls were made before the job settled, the job has
\* settled, and one fetch was issued.
C3_Witness ==
    /\ Len(calls) = 2
    /\ calls[2].refreshing
    /\ calls[1].job = calls[2].job
    /\ settled[calls[1].job] # "pending"
    /\ fetches[calls[1].job] = 1
    /\ jobs = 1

\* C4: when the startup cache load and an update() overlap, after both have
\* completed the accepted document carries the greatest timestamp among the
\* baseline, the cached document and the fetched document.
C4_RaceKeepsNewest ==
    (ctor = "done" /\ pc = "idle" /\ jobs = 1 /\ info.overlap) =>
        NewDate(tokenListDataStorage) =
            Max({BundledTs}
                \cup (IF "timestamp" \in DOMAIN cachedData
                      THEN {cachedData.timestamp} ELSE {})
                \cup (IF resp.status = 200 /\ "timestamp" \in DOMAIN resp.data
                      THEN {resp.data.timestamp} ELSE {}))

\* C5: the job reference is set exactly while a refresh runs: it is cleared
\* when the refresh completes on any path, every job other than the running
\* one has settled on one of the paths of #update after issuing its own single
\* fetch, and a call made while no refresh runs starts a job it shares with no
\* earlier call.
C5_JobClearedOnCompletion ==
    /\ updateJob = NoJob <=> pc = "idle"
    /\ updateJob # NoJob => updateJob = jobs /\ settled[updateJob] = "pending"
    /\ \A j \in Finished :
          /\ settled[j] # "pending"
          /\ branch[j] \in {"updated", "notModified", "didNotUpdate", "error"}
          /\ fetches[j] = 1
    /\ \A i \in DOMAIN calls :
          ~calls[i].refreshing => \A k \in 1..(i - 1) : calls[k].job < calls[i].job

\* C5 witness: a first refresh has failed and a second update() has started a
\* new job, which has issued its own fetch.
C5_Witness ==
    /\ jobs = 2
    /\ branch[1] = "error"
    /\ updateJob = 2
    /\ fetches[2] = 1
    /\ pc = "fetch"

\* C6: a refresh with no concurrent adoption that is answered 200 with a
\* document newer than the accepted one and an etag, and whose writes succeed,
\* ends with that document accepted, the document and the etag in the cache
\* files, one more 'update' event, and a promise resolved with "updated".
C6_UpdatedScenario ==
    (/\ pc = "idle"
     /\ jobs >= 1
     /\ resp.status = 200
     /\ DateGT(NewDate(resp.data), NewDate(base.doc))
     /\ resp.etag # NoEtag
     /\ ~info.concurrent
     /\ info.writesOk) =>
        /\ tokenListDataStorage = resp.data
        /\ rnfs[RB_TOKEN_LIST_CACHE] = JsonStringify(resp.data)
        /\ rnfs[RB_TOKEN_LIST_ETAG] = JsonStringify([etag |-> resp.etag])
        /\ emitted = base.emitted + 1
        /\ settled[jobs] = "updated"

\* C7: a refresh answered 304 leaves the accepted document, the lookup tables
\* and the cache files as they were, emits no event, and its promise resolves
\* with "no change".
C7_NotModifiedScenario ==
    (pc = "idle" /\ jobs >= 1 /\ resp.status = 304) =>
        /\ Current = base
        /\ settled[jobs] = "no change"

\* C8: a document offered with a timestamp not after the accepted document's
\* is not adopted: after such a 200 response the refresh writes no file,
\* swaps nothing and emits nothing, and the cache load adopts only a document
\* that is strictly newer.
C8_StaleOfferIsNoOp ==
    /\ (pc # "fetch" /\ info.stale) => Current = base
    /\ \A i \in DOMAIN adoptions :
          adoptions[i].via = "cache" => DateGT(adoptions[i].next, adoptions[i].prev)

\* C9: a refresh whose fetch failed has changed nothing: the accepted
\* document, the lookup tables, the cache files and the number of events are
\* what they were when it started (but for what the cache load adopted).
C9_FailedRefreshChangesNothing ==
    (\/ pc = "ret" /\ result.kind = "throw"
     \/ pc = "idle" /\ jobs >= 1 /\ branch[jobs] = "error") =>
        Current = base

\* C9 witness: a first refresh adopted a document, a second one failed, and
\* the store is still on the adopted document.
C9_Witness ==
    /\ jobs = 2
    /\ pc = "idle"
    /\ branch[1] = "updated"
    /\ branch[2] = "error"
    /\ tokenListDataStorage # RAINBOW_TOKEN_LIST_DATA

\* C10: the promise of update() never rejects and resolves with "updated"
\* exactly when the job adopted a document, with "error" exactly when the
\* refresh failed, and with "no change" otherwise.
C10_OutcomeReported ==
    \A j \in Finished :
        /\ settled[j] # "rejected"
        /\ settled[j] = (CASE branch[j] = "updated" -> "updated"
                           [] branch[j] = "error" -> "error"
                           [] OTHER -> "no change")

\* C11: when the cache file holds a document newer than the bundled one and
\* the constructor's load has run before any update() call, the cached
\* document is the accepted one, one 'update' event was emitted and no fetch
\* was issued.
C11_CacheAdoptedAtStartup ==
    (/\ ctor = "done"
     /\ calls = <<>>
     /\ "timestamp" \in DOMAIN cachedData
     /\ cachedData.timestamp > BundledTs) =>
        /\ tokenListDataStorage = cachedData
        /\ emitted = 1
        /\ inflight = 0
        /\ \A j \in 1..MaxCalls : fetches[j] = 0

\* C11 witness: the cache load has adopted the newest cached document with no
\* update() call made.
C11_Witness ==
    /\ ctor = "done"
    /\ calls = <<>>
    /\ rnfs[RB_TOKEN_LIST_CACHE] = JsonStringify(Doc(MaxTs))
    /\ tokenListDataStorage = Doc(MaxTs)
    /\ emitted = 1

\* C12: there are as many 'update' events as adoptions, the listeners find
\* the adopted documents accepted in the order of the adoptions, and a
\* refresh that ends without a new list or with an error emits none.
C12_OneEventPerAdoption ==
    /\ emitted = Len(adoptions)
    /\ notified = [i \in DOMAIN adoptions |-> adoptions[i].next]
    /\ (pc = "idle" /\ jobs >= 1 /\ branch[jobs] # "updated") => emitted = base.emitted

\* C12 witness: an adoption from the cache, then one from the network, then a
\* refresh that found no change: two events.
C12_Witness ==
    /\ Len(adoptions) = 2
    /\ adoptions[1].via = "cache"
    /\ adoptions[2].via = "network"
    /\ jobs = 2
    /\ pc = "idle"
    /\ branch[2] = "notModified"
    /\ emitted = 2

\* C13: when a write of the cache files fails during a refresh whose fetched
\* document is newer than the accepted one, the fetched document is accepted
\* all the same, the lookup tables are the ones built from it, and one
\* 'update' event is emitted.
C13_AdoptedDespiteWriteFailure ==
    (/\ pc = "idle"
     /\ jobs >= 1
     /\ resp.status = 200
     /\ DateGT(NewDate(resp.data), NewDate(base.doc))
     /\ ~info.writesOk
     /\ ~info.concurrent) =>
        /\ tokenListDataStorage = resp.data
        /\ derivedData = generateDerivedData(resp.data)
        /\ emitted = base.emitted + 1

\* C14: a response whose status is neither 200 nor 304 makes the refresh
\* fail: the promise of update() reports an error and the accepted document
\* is the one accepted before.
C14_UnexpectedStatusFails ==
    (pc = "idle" /\ jobs >= 1 /\ resp.status \notin {0, 200, 304}) =>
        /\ settled[jobs] = "error"
        /\ tokenListDataStorage = base.doc

\* C15: a cache file that is missing, is not JSON, or holds an object without
\* a timestamp or without a tokens list is never adopted by the constructor:
\* with no update() call made the bundled document stays accepted and no
\* 'update' event is emitted.
C15_BadCacheIgnored ==
    (/\ ctor = "done"
     /\ \/ cachedData = Null
        \/ "timestamp" \notin DOMAIN cachedData
        \/ "tokens" \notin DOMAIN cachedData) =>
        /\ \A i \in DOMAIN adoptions : adoptions[i].via # "cache"
        /\ calls = <<>> => tokenListDataStorage = RAINBOW_TOKEN_LIST_DATA /\ emitted = 0

\* C16: a refresh that has started is eventually over, with #updateJob
\* cleared, whatever the fetch, the freshness test and the writes of the cache
\* files come to, provided the file and network calls all settle.
C16_RefreshTerminates == (updateJob # NoJob) ~> (updateJob = NoJob /\ pc = "idle")

\* C16 witness: a refresh whose fetched document was newer and whose write of
\* the cache file failed is over, and #updateJob is cleared.
C16_Witness ==
    /\ jobs >= 1
    /\ pc = "idle"
    /\ updateJob = NoJob
    /\ branch[jobs] = "updated"
    /\ ~info.writesOk

\* C17: a call of a read accessor returns the table #derivedData holds, which
\* before the cache load has completed and with no update() call made is the
\* one built from the bundled document, and the call changes nothing: not the
\* accepted document, the tables, #updateJob or the cache files, and it starts
\* no file read, no file write and no fetch.
C17_AccessorsArePureReads ==
    [][seen' # seen =>
          /\ seen'.value = derivedData[seen'.name]
          /\ (ctor # "done" /\ calls = <<>>) =>
                 seen'.value = generateDerivedData(RAINBOW_TOKEN_LIST_DATA)[seen'.name]
          /\ UNCHANGED <<store, updateJob, rnfs, ctor, cachedData, frame, history,
                         inflight, adoptions, base, reads>>]_vars

\* C17 witness: the safe list has been read while the constructor's read of
\* the cache file is still pending and no update() call has been made.
C17_Witness ==
    /\ seen.name = "TOKEN_SAFE_LIST"
    /\ ctor = "reading"
    /\ calls = <<>>

\* C18: a freshness comparison in which one of the two documents has no
\* timestamp is false, and so a document without timestamp is never adopted:
\* not from the cache file by the constructor, not from a 200 response by a
\* refresh, which ends with the store as it was when it started.
C18_AbsentTimestampNeverAdopts ==
    /\ \A d \in DocPool \cup {TokenlessDoc} :
          /\ ~DateGT(NewDate(UndatedDoc), NewDate(d))
          /\ ~DateGT(NewDate(d), NewDate(UndatedDoc))
    /\ "timestamp" \in DOMAIN tokenListDataStorage
    /\ \A i \in DOMAIN adoptions : adoptions[i].next # NaN /\ adoptions[i].prev # NaN
    /\ (ctor = "done" /\ "timestamp" \notin DOMAIN cachedData) =>
          \A i \in DOMAIN adoptions : adoptions[i].via # "cache"
    /\ (/\ pc = "idle"
        /\ jobs >= 1
        /\ resp.status = 200
        /\ "timestamp" \notin DOMAIN resp.data) =>
          /\ branch[jobs] = "didNotUpdate"
          /\ tokenListDataStorage = base.doc
          /\ emitted = base.emitted

\* C18 witness: the cache file held a document without timestamp, the
\* constructor's load is over, and a refresh answered 200 with a document
\* without timestamp is over too.
C18_Witness ==
    /\ ctor = "done"
    /\ cachedData = UndatedDoc
    /\ pc = "idle"
    /\ jobs >= 1
    /\ resp.status = 200
    /\ resp.data = UndatedDoc

\* the tokens generateDerivedData works on: ethWithAddress and the normalized
\* tokens of the document
WorkingTokens(tokenListData) ==
    {ethWithAddress}
    \cup {NormalizeToken(tokenListData.tokens[i]) : i \in DOMAIN tokenListData.tokens}

\* C19: in the tables built from a document, every key of CURATED_TOKENS is a
\* key of RAINBOW_TOKEN_LIST, and the token CURATED_TOKENS holds under a key
\* has that key as its address and isRainbowCurated true.
C19_CuratedWithinFull ==
    pc = "built" =>
        LET curated == derivedData.CURATED_TOKENS
            full == derivedData.RAINBOW_TOKEN_LIST
        IN  /\ DOMAIN curated \subseteq DOMAIN full
            /\ \A a \in DOMAIN curated :
                  /\ curated[a].address = a
                  /\ "isRainbowCurated" \in DOMAIN curated[a]
                  /\ curated[a].isRainbowCurated = TRUE

\* C19 witness: tables built from a document in which a curated token is
\* followed by a token of the same lowercased address that is not curated:
\* the two tables have the same keys and hold different tokens.
C19_Witness ==
    /\ pc = "built"
    /\ Len(tokenListDataStorage.tokens) = 2
    /\ DOMAIN derivedData.CURATED_TOKENS = DOMAIN derivedData.RAINBOW_TOKEN_LIST
    /\ derivedData.CURATED_TOKENS # derivedData.RAINBOW_TOKEN_LIST

\* C20: in the tables built from a document, every key of TOKEN_SAFE_LIST is
\* the lowercased value stored under it, and that value is the name or the
\* symbol, as spelled, of a curated token of the document or of
\* ethWithAddress.
C20_SafeListFromCurated ==
    pc = "built" =>
        LET safe == derivedData.TOKEN_SAFE_LIST
        IN  \A k \in DOMAIN safe :
                /\ toLowerCase(safe[k]) = k
                /\ \E t \in WorkingTokens(tokenListDataStorage) :
                      /\ isRainbowCurated(t)
                      /\ safe[k] \in {t.name, t.symbol}

\* C20 witness: tables built from a document with a curated token whose name
\* has capitals and a token that is not curated and whose name is in no key.
C20_Witness ==
    /\ pc = "built"
    /\ \E k \in DOMAIN derivedData.TOKEN_SAFE_LIST :
          /\ derivedData.TOKEN_SAFE_LIST[k] # k
          /\ \E i \in DOMAIN tokenListDataStorage.tokens :
                tokenListDataStorage.tokens[i].name = derivedData.TOKEN_SAFE_LIST[k]
    /\ \E i \in DOMAIN tokenListDataStorage.tokens :
          /\ ~isRainbowCurated(NormalizeToken(tokenListDataStorage.tokens[i]))
          /\ toLowerCase(tokenListDataStorage.tokens[i].name)
                \notin DOMAIN derivedData.TOKEN_SAFE_LIST

\* the list generateDerivedData works on: ethWithAddress, then the normalized
\* tokens of the document in their order
WorkingSeq(tokenListData) ==
    <<ethWithAddress>>
    \o [i \in DOMAIN tokenListData.tokens |-> NormalizeToken(tokenListData.tokens[i])]

\* C21 as claimed: in the tables built from a document, every value of
\* TOKEN_SAFE_LIST is the name or the symbol of a token that is a value of
\* CURATED_TOKENS.
C21_SafeListFromCuratedIndex ==
    pc = "built" =>
        LET safe == derivedData.TOKEN_SAFE_LIST
            curated == derivedData.CURATED_TOKENS
        IN  \A k \in DOMAIN safe :
                \E a \in DOMAIN curated : safe[k] \in {curated[a].name, curated[a].symbol}

\* no two curated tokens of the working list have the same address
CuratedAddressesDistinct(tokenListData) ==
    LET ws == WorkingSeq(tokenListData)
    IN  \A i, j \in DOMAIN ws :
            (isRainbowCurated(ws[i]) /\ isRainbowCurated(ws[j]) /\ ws[i].address = ws[j].address)
                => i = j

\* C21 amended: every value of TOKEN_SAFE_LIST is the name or the symbol of a
\* curated token of the working list, and of a value of CURATED_TOKENS when no
\* two curated tokens of the working list have the same address.
C21_SafeListFromCuratedTokens ==
    pc = "built" =>
        LET safe == derivedData.TOKEN_SAFE_LIST
            curated == derivedData.CURATED_TOKENS
            ws == WorkingSeq(tokenListDataStorage)
        IN  \A k \in DOMAIN safe :
                /\ \E i \in DOMAIN ws :
                      isRainbowCurated(ws[i]) /\ safe[k] \in {ws[i].name, ws[i].symbol}
                /\ CuratedAddressesDistinct(tokenListDataStorage) =>
                      \E a \in DOMAIN curated :
                          safe[k] \in {curated[a].name, curated[a].symbol}

\* C21 witness: tables built from a document with two curated tokens of
\* different addresses and different names: three curated tokens, four keys.
C21_Witness ==
    /\ pc = "built"
    /\ CuratedAddressesDistinct(tokenListDataStorage)
    /\ Cardinality(DOMAIN derivedData.CURATED_TOKENS) = 3
    /\ Cardinality(DOMAIN derivedData.TOKEN_SAFE_LIST) = 4

\* the tokens of the document that normalize to the address of ethWithAddress
\* (positions in tokenListData.tokens)
AtEthAddress(tokenListData) ==
    {i \in DOMAIN tokenListData.tokens :
        NormalizeToken(tokenListData.tokens[i]).address = ethWithAddress.address}

\* C22 as claimed: in the tables built from a document, RAINBOW_TOKEN_LIST
\* holds ethWithAddress under its address and has a key for the address of
\* every normalized token of the document.
C22_FullIndexHoldsSentinel ==
    pc = "built" =>
        LET full == derivedData.RAINBOW_TOKEN_LIST
        IN  /\ ethWithAddress.address \in DOMAIN full
            /\ full[ethWithAddress.address] = ethWithAddress
            /\ \A i \in DOMAIN tokenListDataStorage.tokens :
                  NormalizeToken(tokenListDataStorage.tokens[i]).address \in DOMAIN full

\* C22 amended: the keys of RAINBOW_TOKEN_LIST are the address of
\* ethWithAddress and the addresses of the normalized tokens of the document;
\* under the address of ethWithAddress it holds ethWithAddress when no token
\* of the document normalizes to that address, and the last such token of the
\* document otherwise (ethWithAddress comes first in the working list).
C22_FullIndexCoversAll ==
    pc = "built" =>
        LET full == derivedData.RAINBOW_TOKEN_LIST
            tokens == tokenListDataStorage.tokens
            atEth == AtEthAddress(tokenListDataStorage)
        IN  /\ DOMAIN full = {ethWithAddress.address}
                               \cup {NormalizeToken(tokens[i]).address : i \in DOMAIN tokens}
            /\ full[ethWithAddress.address] =
                  IF atEth = {} THEN ethWithAddress
                  ELSE NormalizeToken(tokens[CHOOSE i \in atEth : \A j \in atEth : j <= i])

\* C22 witness: tables built from a document with two tokens of the address
\* ETH: the full index holds the second one under eth.
C22_Witness ==
    /\ pc = "built"
    /\ Cardinality(AtEthAddress(tokenListDataStorage)) = 2
    /\ tokenListDataStorage.tokens[1] # tokenListDataStorage.tokens[2]
    /\ derivedData.RAINBOW_TOKEN_LIST[ethWithAddress.address]
          = NormalizeToken(tokenListDataStorage.tokens[2])

\* the positions of the working list whose token has address a
PositionsAt(ws, a) == {n \in DOMAIN ws : ws[n].address = a}

\* C23: when two tokens of the working list (ethWithAddress, then the
\* normalized tokens of the document) have the same address, RAINBOW_TOKEN_LIST
\* holds under that address the last token of the list that has it, and when
\* the two are curated CURATED_TOKENS holds the last curated one that has it.
C23_LaterTokenWins ==
    pc = "built" =>
        LET ws == WorkingSeq(tokenListDataStorage)
            full == derivedData.RAINBOW_TOKEN_LIST
            curated == derivedData.CURATED_TOKENS
        IN  \A i, j \in DOMAIN ws :
                (i < j /\ ws[i].address = ws[j].address) =>
                    LET a == ws[i].address
                    IN  /\ full[a] = ws[Max(PositionsAt(ws, a))]
                        /\ (isRainbowCurated(ws[i]) /\ isRainbowCurated(ws[j])) =>
                              curated[a] =
                                  ws[Max({n \in PositionsAt(ws, a) : isRainbowCurated(ws[n])})]

\* C23 witness: tables built from a document whose two tokens are curated,
\* differ and have the same lowercased address: both tables hold the second.
C23_Witness ==
    /\ pc = "built"
    /\ Len(tokenListDataStorage.tokens) = 2
    /\ LET ws == WorkingSeq(tokenListDataStorage)
       IN  /\ ws[2] # ws[3]
           /\ ws[2].address = ws[3].address
           /\ isRainbowCurated(ws[2])
           /\ isRainbowCurated(ws[3])
           /\ derivedData.RAINBOW_TOKEN_LIST[ws[3].address] = ws[3]
           /\ derivedData.CURATED_TOKENS[ws[3].address] = ws[3]

\* C24: every normalized token of a document has the lowercased address of
\* its raw token, a uniqueId equal to its address and the fields of its
\* extensions, and so every token RAINBOW_TOKEN_LIST holds under a key k has
\* address k and uniqueId k, k being lowercase.
C24_NormalizedAddressIsKey ==
    pc = "built" =>
        /\ \A i \in DOMAIN tokenListDataStorage.tokens :
              LET raw == tokenListDataStorage.tokens[i]
                  t == NormalizeToken(raw)
              IN  /\ t.address = toLowerCase(raw.address)
                  /\ t.uniqueId = t.address
                  /\ "extensions" \in DOMAIN raw =>
                        \A f \in DOMAIN raw.extensions : t[f] = raw.extensions[f]
        /\ \A k \in DOMAIN derivedData.RAINBOW_TOKEN_LIST :
              LET t == derivedData.RAINBOW_TOKEN_LIST[k]
              IN  /\ t.address = k
                  /\ t.uniqueId = k
                  /\ toLowerCase(k) = k

\* C30 as claimed: in the tables built from a document, CURATED_TOKENS and
\* RAINBOW_TOKEN_LIST hold the same token under every key of CURATED_TOKENS.
C30_CuratedSameAsFull ==
    pc = "built" =>
        \A a \in DOMAIN derivedData.CURATED_TOKENS :
            /\ a \in DOMAIN derivedData.RAINBOW_TOKEN_LIST
            /\ derivedData.CURATED_TOKENS[a] = derivedData.RAINBOW_TOKEN_LIST[a]

\* C30 amended: under a key a of CURATED_TOKENS the two tables hold the same
\* token when the last token of the working list with address a is curated;
\* when it is not, RAINBOW_TOKEN_LIST holds that token and CURATED_TOKENS the
\* last curated one with address a.
C30_CuratedSameAsFullWhenLastCurated ==
    pc = "built" =>
        LET ws == WorkingSeq(tokenListDataStorage)
            full == derivedData.RAINBOW_TOKEN_LIST
            curated == derivedData.CURATED_TOKENS
        IN  \A a \in DOMAIN curated :
                LET last == ws[Max(PositionsAt(ws, a))]
                IN  /\ a \in DOMAIN full
                    /\ full[a] = last
                    /\ IF isRainbowCurated(last)
                       THEN curated[a] = full[a]
                       ELSE /\ curated[a] # full[a]
                            /\ curated[a] =
                                  ws[Max({n \in PositionsAt(ws, a) : isRainbowCurated(ws[n])})]

\* C30 witness: tables built from a document in which a token that is not
\* curated comes before a curated one of the same lowercased address, and
\* from which both tables hold the curated one.
C30_Witness ==
    /\ pc = "built"
    /\ Len(tokenListDataStorage.tokens) = 2
    /\ LET ws == WorkingSeq(tokenListDataStorage)
       IN  /\ ws[2].address = ws[3].address
           /\ ~isRainbowCurated(ws[2])
           /\ isRainbowCurated(ws[3])
           /\ derivedData.CURATED_TOKENS[ws[3].address] = ws[3]
           /\ derivedData.RAINBOW_TOKEN_LIST[ws[3].address] = ws[3]

\* the etag a file of the state `file` yields: none when the file is missing,
\* is not JSON or holds no etag
EtagIn(file) ==
    IF file.kind = "json" /\ "etag" \in DOMAIN file.value THEN file.value.etag ELSE NoEtag

\* C26: a refresh issues no request before its read of the etag file has
\* settled and one request after it, one read per request; the request has
\* the If-None-Match header, with the etag of the file, exactly when the file
\* held an etag when the refresh started, and a missing or unreadable file
\* leads to a request without the header, not to a failure.
C26_ConditionalGet ==
    /\ \A j \in 1..MaxCalls : fetches[j] <= 1
    /\ reads[RB_TOKEN_LIST_ETAG] = Cardinality({j \in 1..MaxCalls : fetches[j] = 1})
    /\ pc = "readEtag" => fetches[updateJob] = 0 /\ result = NoResult
    /\ pc \in {"fetch", "write", "ret"} =>
          /\ fetches[updateJob] = 1
          /\ ifNoneMatch = EtagIn(base.rnfs[RB_TOKEN_LIST_ETAG])
    /\ (pc = "fetch" /\ base.rnfs[RB_TOKEN_LIST_ETAG] \in {Missing, Corrupt}) =>
          ifNoneMatch = NoEtag /\ inflight = 1

\* C26 witness: a second refresh has sent the etag that the first one got
\* from the remote and wrote to the file (no store starts with that etag).
C26_Witness ==
    /\ jobs = 2
    /\ pc = "fetch"
    /\ ifNoneMatch = EtagOf(Doc(BundledTs + 1))
    /\ rnfs[RB_TOKEN_LIST_ETAG] = JsonStringify([etag |-> ifNoneMatch])

\* C27: the writes of the cache files are started only for a fetched document
\* that is newer than the document accepted at that moment, and in such a
\* refresh the fetched document is adopted only when every write has settled,
\* the 'update' event is emitted with the adoption and the promise of the job
\* settles only then.
C27_WriteSwapNotifyResolve ==
    [][/\ (pc = "fetch" /\ pc' = "write") =>
              DateGT(NewDate(resp'.data), NewDate(tokenListDataStorage))
       /\ rnfs' # rnfs => pc = "write" /\ settled[updateJob] = "pending"
       /\ (Len(adoptions') > Len(adoptions)
           /\ adoptions'[Len(adoptions')].via = "network") =>
              /\ pc = "ret"
              /\ work = {}
              /\ emitted' = emitted + 1
              /\ settled[updateJob] = "pending"
              /\ settled'[updateJob] # "pending"]_vars

\* C28: the stored document and the derived tables change only in a run of
\* the setter, which is one step that stores the document, rebuilds the tables
\* and then emits 'update'; a listener of 'update' that reads the store during
\* the emit finds the document and the tables the setter has just stored.
C28_ListenerSeesStoredDocument ==
    [][/\ (tokenListDataStorage' # tokenListDataStorage
           \/ derivedData' # derivedData) =>
              /\ emitted' = emitted + 1
              /\ Len(adoptions') = Len(adoptions) + 1
       /\ emitted' # emitted =>
              /\ emitted' = emitted + 1
              /\ observed' = Append(observed, [doc |-> tokenListDataStorage',
                                                derived |-> derivedData'])
              /\ NewDate(tokenListDataStorage') = adoptions'[Len(adoptions')].next
       /\ emitted' = emitted => observed' = observed]_vars

\* the network document was adopted over the cached one, and the listener saw
\* each of the two as the stored document when its event was delivered
C28_Witness ==
    /\ Len(observed) = 2
    /\ observed[1].doc # observed[2].doc
    /\ observed[2].doc = tokenListDataStorage
    /\ adoptions[2].via = "network"
    /\ NewDate(observed[2].doc) = MaxTs

\* C29 as stated: both cache files are read once, in the constructor's read,
\* and no step removes a file that exists.
C29_BothFilesReadAtConstruction ==
    [][/\ \A f \in FileNames : rnfs[f] # Missing => rnfs'[f] # Missing
       /\ reads' # reads =>
              /\ ctor = "reading"
              /\ ctor' # "reading"
              /\ \A f \in FileNames : reads[f] = 0 /\ reads'[f] = 1]_vars

\* C29 as amended: the document file is read once, in the constructor's read;
\* the etag file is read once at the start of every refresh and by nothing
\* else; no step removes a file that exists.
C29_DocumentFileReadOnce ==
    [][/\ \A f \in FileNames : rnfs[f] # Missing => rnfs'[f] # Missing
       /\ (ctor = "reading" /\ ctor' # ctor) =>
              reads[RB_TOKEN_LIST_CACHE] = 0 /\ reads'[RB_TOKEN_LIST_CACHE] = 1
       /\ reads'[RB_TOKEN_LIST_CACHE] # reads[RB_TOKEN_LIST_CACHE] =>
              /\ ctor = "reading" /\ ctor' # ctor
              /\ reads'[RB_TOKEN_LIST_ETAG] = reads[RB_TOKEN_LIST_ETAG]
       /\ (pc = "readEtag" /\ pc' # pc) =>
              reads'[RB_TOKEN_LIST_ETAG] = reads[RB_TOKEN_LIST_ETAG] + 1
       /\ reads'[RB_TOKEN_LIST_ETAG] # reads[RB_TOKEN_LIST_ETAG] =>
              /\ pc = "readEtag" /\ pc' = "fetch"
              /\ reads'[RB_TOKEN_LIST_ETAG] = reads[RB_TOKEN_LIST_ETAG] + 1]_vars

\* two refreshes have run to their end, one of them with a failed write, the
\* etag file was read twice and the document file once, and both files exist
C29_Witness ==
    /\ pc = "idle"
    /\ jobs = 2
    /\ reads[RB_TOKEN_LIST_ETAG] = 2
    /\ reads[RB_TOKEN_LIST_CACHE] = 1
    /\ \A f \in FileNames : rnfs[f] # Missing
    /\ ~info.writesOk

\* both cache files exist
BothFilesExist(files) == \A f \in FileNames : files[f] # Missing

\* the etag file holds the etag the remote sends with the document of the
\* document file
EnvelopeConsistent(files) ==
    /\ files[RB_TOKEN_LIST_CACHE].kind = "json"
    /\ EtagIn(files[RB_TOKEN_LIST_ETAG]) = EtagOf(files[RB_TOKEN_LIST_CACHE].value)

\* C31: when no write of a cache file is pending and both files exist, the
\* etag file holds the etag the remote sent with the document of the document
\* file, given that the latest refresh started with no cache file or with two
\* files of which this was true.
C31_EnvelopeConsistent ==
    (/\ pc # "write"
     /\ BothFilesExist(rnfs)
     /\ \/ \A f \in FileNames : base.rnfs[f] = Missing
        \/ EnvelopeConsistent(base.rnfs)) =>
        EnvelopeConsistent(rnfs)

\* what the latest request got is an answer of a remote whose current document
\* is R: 200 with R, or 304 to a request that carried the etag of R
RemoteAnswered(R) ==
    \/ resp.status = 200 /\ resp.data = R
    \/ resp.status = 304 /\ ifNoneMatch = EtagOf(R)

\* C32: a refresh that has run to its end with an answer of a remote whose
\* current document is newer than the document the store would hold without
\* that refresh, has left the remote's document accepted.
C32_RefreshReachesRemote ==
    \A ts \in 1..MaxTs :
        (/\ pc = "idle"
         /\ jobs >= 1
         /\ result.kind = "value"
         /\ RemoteAnswered(Doc(ts))
         /\ DateGT(ts, NewDate(base.doc))) =>
            tokenListDataStorage = Doc(ts)

\* the timestamp of the document a cache file holds, NaN when it holds none
CachedDate(file) == IF file.kind = "json" THEN NewDate(file.value) ELSE NaN

\* C33: no step replaces the dated document of the document file by a
\* document of an older timestamp.
C33_CachedTimestampGrows ==
    [][CachedDate(rnfs[RB_TOKEN_LIST_CACHE]) # NaN =>
          CachedDate(rnfs'[RB_TOKEN_LIST_CACHE]) >=
              CachedDate(rnfs[RB_TOKEN_LIST_CACHE])]_vars

\* C34: an update() call made by a listener during the emit of a network
\* adoption is handed the job that is completing and starts no job and no
\* fetch, and that job is cleared in the same run of #update; a job starts
\* only in a step that begins with no job set.
C34_ReentrantUpdateJoinsJob ==
    [][/\ (calls' # calls /\ calls'[Len(calls')].fromListener) =>
              /\ pc = "ret"
              /\ emitted' = emitted + 1
              /\ calls' = Append(calls, [job |-> updateJob, refreshing |-> TRUE,
                                         fromListener |-> TRUE])
              /\ jobs' = jobs
              /\ fetches' = fetches
              /\ inflight' = inflight
              /\ pc' = "idle"
              /\ updateJob' = NoJob
              /\ settled'[updateJob] # "pending"
       /\ jobs' # jobs =>
              /\ updateJob = NoJob
              /\ jobs' = jobs + 1
              /\ updateJob' = jobs'
              /\ calls' = Append(calls, [job |-> jobs', refreshing |-> FALSE,
                                         fromListener |-> FALSE])]_vars

\* a listener has called update() during the emit of the first job's adoption
\* and was handed that job, which has resolved and is cleared, after one fetch
C34_Witness ==
    /\ Len(calls) = 2
    /\ calls[2] = [job |-> 1, refreshing |-> TRUE, fromListener |-> TRUE]
    /\ adoptions # <<>>
    /\ adoptions[Len(adoptions)].via = "network"
    /\ settled[1] = "undefined"
    /\ updateJob = NoJob
    /\ jobs = 1
    /\ fetches = [j \in 1..MaxCalls |-> IF j = 1 THEN 1 ELSE 0]

\* C35: when a listener throws during the emit of a network adoption, the
\* document of the refresh stays stored, #updateJob is cleared and the promise
\* of the job resolves.
C35_ListenerThrowKeepsAdoption ==
    [][\A j \in 1..MaxCalls :
          (branch[j] # "caught" /\ branch'[j] = "caught") =>
              /\ updateJob = j
              /\ result.newTokenList # Null
              /\ tokenListDataStorage' = result.newTokenList
              /\ Len(adoptions') = Len(adoptions) + 1
              /\ emitted' = emitted + 1
              /\ updateJob' = NoJob
              /\ settled'[j] = "undefined"]_vars

\* a listener threw during the emit of the adoption of the newest document
C35_Witness ==
    /\ pc = "idle"
    /\ jobs = 1
    /\ branch[1] = "caught"
    /\ NewDate(tokenListDataStorage) = MaxTs
    /\ emitted = 1

====
